---- MODULE Spec2Model ----
(***************************************************************************)
(* Monte Carlo Tree Search engine of mcts_modified.py: the search tree of  *)
(* MCTSNode objects, the four phases of one iteration of think             *)
(* (traverse_nodes, expand_leaf, rollout, backpropagate) and the final     *)
(* get_best_action.  The game rules (Board) are a small two-player         *)
(* box-claiming game that honours the collaborator's interface.            *)
(***************************************************************************)
EXTENDS Integers, Sequences, FiniteSets, TLC

----------------------------------------------------------------------------
(* Bounds of the model *)

\* largest iteration budget (num_nodes) explored
MaxBudget == 5

----------------------------------------------------------------------------
(* The game-rules collaborator (Board).  An action is a pair <<x, y>>: the  *)
(* coordinates of the box it plays in.  A box is claimed by the player who  *)
(* places its last missing mark.  The game ends when the centre box is      *)
(* owned (its owner wins) or no box is open (the owner of more boxes wins,  *)
(* equal counts are a draw).                                                *)

\* the absent value (Python None) for actions and outcomes
None == << >>

Players == {1, 2}

BoxOrder == << <<0, 0>>, <<0, 1>>, <<1, 1>>, <<2, 1>> >>

Boxes == {BoxOrder[i] : i \in 1..Len(BoxOrder)}

Centre == <<1, 1>>

Other(p) == IF p = 1 THEN 2 ELSE 1

MkState(n00, n01, n11, n21, o00, o01, o11, o21, t) ==
    [need  |-> (<<0, 0>> :> n00) @@ (<<0, 1>> :> n01) @@ (<<1, 1>> :> n11) @@ (<<2, 1>> :> n21),
     owner |-> (<<0, 0>> :> o00) @@ (<<0, 1>> :> o01) @@ (<<1, 1>> :> o11) @@ (<<2, 1>> :> o21),
     turn  |-> t]

current_player(s) == s.turn

owned_boxes(s) == s.owner

BoxCount(s, p) == Cardinality({b \in Boxes : s.owner[b] = p})

is_ended(s) ==
    \/ s.owner[Centre] # 0
    \/ \A b \in Boxes : s.need[b] = 0

Winner(s) ==
    IF s.owner[Centre] # 0 THEN s.owner[Centre]
    ELSE IF BoxCount(s, 1) > BoxCount(s, 2) THEN 1
    ELSE IF BoxCount(s, 2) > BoxCount(s, 1) THEN 2
    ELSE 0

\* <<outcome of player 1, outcome of player 2>>, None while the game runs
points_values(s) ==
    IF ~is_ended(s) THEN None
    ELSE IF Winner(s) = 0 THEN <<0, 0>>
    ELSE [p \in 1..2 |-> IF Winner(s) = p THEN 1 ELSE -1]

IsOpen(s, b) == s.need[b] > 0

legal_actions(s) ==
    IF is_ended(s) THEN << >>
    ELSE SelectSeq(BoxOrder, LAMBDA b : IsOpen(s, b))

SeqToSet(q) == {q[i] : i \in 1..Len(q)}

IsLegal(s, a) == a \in SeqToSet(legal_actions(s))

\* the successor state; an illegal action raises InvalidAction, which the
\* callers record, and leaves the state as it is
next_state(s, a) ==
    IF ~IsLegal(s, a) THEN s
    ELSE [need  |-> [s.need EXCEPT ![a] = @ - 1],
          owner |-> [s.owner EXCEPT ![a] = IF s.need[a] = 1 THEN s.turn ELSE @],
          turn  |-> Other(s.turn)]

\* the positions a search can be started from
StartBoards ==
    { MkState(0, 0, 0, 0,  0, 0, 0, 0,  1),    \* nothing open: a finished draw
      MkState(0, 1, 0, 0,  0, 0, 0, 0,  1),    \* one action, wins at once
      MkState(0, 2, 0, 0,  0, 0, 0, 0,  1),    \* one action, then a forced loss
      MkState(1, 0, 1, 0,  0, 0, 0, 0,  1),    \* centre wins, corner loses
      MkState(2, 1, 0, 0,  0, 0, 0, 0,  1),    \* three plies, win or draw
      MkState(1, 0, 2, 0,  0, 0, 0, 0,  1),    \* three plies, win or loss
      MkState(2, 0, 2, 0,  0, 0, 0, 0,  1) }   \* up to four plies, win or loss

StartStates == {[b EXCEPT !.turn = t] : b \in StartBoards, t \in Players}

----------------------------------------------------------------------------
(* MCTSNode: the tree is an arena of nodes, a node's identity is its index  *)

NoNode == 0

MCTSNode(parent, parent_action, action_list) ==
    [parent          |-> parent,
     parent_action   |-> parent_action,
     child_nodes     |-> << >>,          \* <<action, child>> pairs, insertion order
     untried_actions |-> action_list,
     wins            |-> 0,
     visits          |-> 0]

\* dict.values() of child_nodes, in insertion order
ChildValues(nd) == [i \in 1..Len(nd.child_nodes) |-> nd.child_nodes[i][2]]

\* dict.keys() of child_nodes
ChildKeys(nd) == {nd.child_nodes[i][1] : i \in 1..Len(nd.child_nodes)}

\* dict.update({key : value}): replace the value of an existing key, or append
DictUpdate(d, key, value) ==
    IF \E i \in 1..Len(d) : d[i][1] = key
    THEN [i \in 1..Len(d) |-> IF d[i][1] = key THEN <<key, value>> ELSE d[i]]
    ELSE Append(d, <<key, value>>)

\* variant of ListRemove: list.pop(), which drops the last element whatever x is
ListPop(q, x) == SubSeq(q, 1, Len(q) - 1)

\* variant of ListRemove: drops the elements before x together with x
ListRemoveThrough(q, x) ==
    LET i == CHOOSE k \in 1..Len(q) : q[k] = x /\ \A j \in 1..(k - 1) : q[j] # x
    IN  SubSeq(q, i + 1, Len(q))

\* list.remove(x): drop the first occurrence of x
ListRemove(q, x) ==
    LET i == CHOOSE k \in 1..Len(q) : q[k] = x /\ \A j \in 1..(k - 1) : q[j] # x
    IN  SubSeq(q, 1, i - 1) \o SubSeq(q, i + 1, Len(q))

----------------------------------------------------------------------------
(* ucb: scores are kept in units of 1/Scale                                 *)

Scale == 10000

explore_faction == 2

\* math.log of a visit count, in units of 10^-6
LogMicro(n) ==
    CASE n = 1 -> 0
      [] n = 2 -> 693147
      [] n = 3 -> 1098612
      [] n = 4 -> 1386294
      [] n = 5 -> 1609438
      [] n = 6 -> 1791759
      [] n = 7 -> 1945910
      [] n = 8 -> 2079442

RECURSIVE SqrtSearch(_, _, _)
SqrtSearch(x, lo, hi) ==
    IF lo >= hi THEN lo
    ELSE LET mid == (lo + hi + 1) \div 2
         IN  IF mid * mid <= x THEN SqrtSearch(x, mid, hi)
             ELSE SqrtSearch(x, lo, mid - 1)

\* math.sqrt of x / Scale^2, in units of 1/Scale
Sqrt(x) == SqrtSearch(x, 0, 2 * Scale)

ucb(tree, n, is_opponent) ==
    LET nd           == tree[n]
        total_visits == tree[nd.parent].visits
        winrate      == IF is_opponent
                        THEN Scale - (nd.wins * Scale) \div nd.visits
                        ELSE (nd.wins * Scale) \div nd.visits
    IN  IF nd.visits # 0
        THEN winrate + explore_faction * Sqrt((LogMicro(total_visits) * 100) \div nd.visits)
        ELSE 0

----------------------------------------------------------------------------
(* traverse_nodes *)

\* variant of MaxChild: among equal scores the child inserted last is taken
MaxChildLast(tree, n, is_opponent) ==
    LET kids     == ChildValues(tree[n])
        score(i) == ucb(tree, kids[i], is_opponent)
        best     == CHOOSE i \in 1..Len(kids) :
                        /\ \A j \in 1..Len(kids) : score(j) <= score(i)
                        /\ \A j \in (i + 1)..Len(kids) : score(j) < score(i)
    IN  kids[best]

\* max(children, key = children.get): the first child, in insertion order,
\* whose score is the largest
MaxChild(tree, n, is_opponent) ==
    LET kids     == ChildValues(tree[n])
        score(i) == ucb(tree, kids[i], is_opponent)
        best     == CHOOSE i \in 1..Len(kids) :
                        /\ \A j \in 1..Len(kids) : score(j) <= score(i)
                        /\ \A j \in 1..(i - 1) : score(j) < score(i)
    IN  kids[best]

\* variant of TraverseLoop: the node is replaced but the state is not advanced
RECURSIVE TraverseLoopStale(_, _, _, _, _, _)
TraverseLoopStale(tree, n, s, is_opponent, calls, scored) ==
    IF tree[n].untried_actions # << >> \/ tree[n].child_nodes = << >>
    THEN [node |-> n, state |-> s, calls |-> calls, scored |-> scored]
    ELSE LET c == MaxChild(tree, n, is_opponent)
         IN  TraverseLoopStale(tree, c, s, is_opponent, calls,
                               Append(scored, <<n, is_opponent>>))

\* variant of TraverseLoop: the state is advanced before the node is replaced,
\* with the parent_action of the node that is left
RECURSIVE TraverseLoopSwapped(_, _, _, _, _, _)
TraverseLoopSwapped(tree, n, s, is_opponent, calls, scored) ==
    IF tree[n].untried_actions # << >> \/ tree[n].child_nodes = << >>
    THEN [node |-> n, state |-> s, calls |-> calls, scored |-> scored]
    ELSE LET c == MaxChild(tree, n, is_opponent)
         IN  TraverseLoopSwapped(tree, c, next_state(s, tree[n].parent_action), is_opponent,
                                 Append(calls, <<s, tree[n].parent_action, "traverse">>),
                                 Append(scored, <<n, is_opponent>>))

\* the while loop of traverse_nodes; calls collects the <<state, action, phase>>
\* triples of the calls of next_state, scored the <<node, is_opponent>> pairs
\* of the nodes whose children were scored
RECURSIVE TraverseLoop(_, _, _, _, _, _)
TraverseLoop(tree, n, s, is_opponent, calls, scored) ==
    IF tree[n].untried_actions # << >> \/ tree[n].child_nodes = << >>
    THEN [node |-> n, state |-> s, calls |-> calls, scored |-> scored]
    ELSE LET c == MaxChild(tree, n, is_opponent)
         IN  TraverseLoop(tree, c, next_state(s, tree[c].parent_action), is_opponent,
                          Append(calls, <<s, tree[c].parent_action, "traverse">>),
                          Append(scored, <<n, is_opponent>>))

traverse_nodes(tree, n, s, bot) ==
    LET is_opponent == IF current_player(s) = bot THEN FALSE ELSE TRUE
    IN  TraverseLoop(tree, n, s, is_opponent, << >>, << >>)

----------------------------------------------------------------------------
(* rollout *)

\* range(50): the number of moves sampled in one ply
NumSamples == 50

\* the points an action's box is worth when the action claims it
BoxPoints(move) ==
    LET move_x == move[1]
        move_y == move[2]
    IN  5 + (IF move_x # 0 /\ move_y = 1 THEN 10 ELSE 0)
          + (IF (move_x = 0 \/ move_x = 2) /\ (move_y = 0 \/ move_y = 2) THEN 3 ELSE 0)

\* the locals of one ply before the first sample
PlyStart ==
    [priority_point1 |-> 0, keep_point |-> 0, best_check |-> FALSE,
     best_move |-> None, rollout_move |-> None, invalid |-> FALSE]

\* one pass of the body of "for i in range(50)" with the sampled move
SampleStep(ls, s, move, identity_of_bot) ==
    LET opponent_bot == IF identity_of_bot = 1 THEN 2 ELSE 1
        test_state   == next_state(s, move)
        owner        == owned_boxes(test_state)[<<move[1], move[2]>>]
        pp           == ls.priority_point1
                          + (IF owner = identity_of_bot THEN BoxPoints(move) ELSE 0)
                          - (IF owner = opponent_bot THEN BoxPoints(move) ELSE 0)
        better       == ls.keep_point > pp
    IN  [priority_point1 |-> pp,
         keep_point      |-> IF better THEN pp ELSE ls.keep_point,
         best_check      |-> IF better THEN TRUE ELSE ls.best_check,
         best_move       |-> IF better THEN move ELSE ls.best_move,
         rollout_move    |-> move,
         invalid         |-> ls.invalid \/ ~IsLegal(s, move)]

\* the locals a ply can end with after i more samples, from the set L
RECURSIVE SampleLoop(_, _, _, _)
SampleLoop(L, s, identity_of_bot, i) ==
    IF i = 0 THEN L
    ELSE SampleLoop({SampleStep(ls, s, move, identity_of_bot) :
                        ls \in L, move \in SeqToSet(legal_actions(s))},
                    s, identity_of_bot, i - 1)

\* the move played at the end of a ply
PlyMove(ls) == IF ls.best_check = FALSE THEN ls.rollout_move ELSE ls.best_move

\* the ways one ply of rollout can end in state s: the move it plays and
\* whether a sample was not a legal action
RolloutPly(s, identity_of_bot) ==
    {[move |-> PlyMove(ls), invalid |-> ls.invalid] :
        ls \in SampleLoop({PlyStart}, s, identity_of_bot, NumSamples)}

\* the states of the game that play from the start positions can reach
RECURSIVE Reach(_)
Reach(S) ==
    LET T == S \cup {next_state(s, a) : s \in S, a \in Boxes}
    IN  IF T = S THEN S ELSE Reach(T)

GameStates == Reach(StartStates)

\* RolloutPly of every state that is not ended, computed once
PlyTable ==
    {<<s, b, RolloutPly(s, b)>> : s \in {t \in GameStates : ~is_ended(t)}, b \in Players}

PlyOutcomes(s, identity_of_bot) ==
    (CHOOSE e \in PlyTable : e[1] = s /\ e[2] = identity_of_bot)[3]

\* the while loop of rollout: every way it can run from state s.  A run ends
\* with the terminal state reached, the calls of next_state that played a move and
\* whether next_state was handed an action that is not legal
RECURSIVE RolloutLoop(_, _, _)
RolloutLoop(s, identity_of_bot, calls) ==
    IF is_ended(s)
    THEN {[state |-> s, calls |-> calls, invalid |-> FALSE]}
    ELSE UNION {
           IF ply.invalid \/ ~IsLegal(s, ply.move)
           THEN {[state |-> s, calls |-> Append(calls, <<s, ply.move, "rollout">>),
                  invalid |-> TRUE]}
           ELSE RolloutLoop(next_state(s, ply.move), identity_of_bot,
                            Append(calls, <<s, ply.move, "rollout">>)) :
           ply \in PlyOutcomes(s, identity_of_bot)}

\* variant of rollout: "if" in place of "while", at most one ply is played
rollout_oneply(s, identity_of_bot, calls) ==
    IF is_ended(s)
    THEN {[state |-> s, calls |-> calls, invalid |-> FALSE]}
    ELSE {[state   |-> next_state(s, ply.move),
           calls   |-> Append(calls, <<s, ply.move, "rollout">>),
           invalid |-> ply.invalid \/ ~IsLegal(s, ply.move)] :
           ply \in PlyOutcomes(s, identity_of_bot)}

rollout(s, identity_of_bot, calls) == RolloutLoop(s, identity_of_bot, calls)

----------------------------------------------------------------------------
(* backpropagate, get_best_action, is_win *)

\* variant of backpropagate: the two counters are exchanged
RECURSIVE backpropagate_swapped(_, _, _)
backpropagate_swapped(tree, n, won) ==
    IF n = NoNode THEN tree
    ELSE backpropagate_swapped([tree EXCEPT ![n].wins   = @ + 1,
                                            ![n].visits = @ + (IF won THEN 1 ELSE 0)],
                               tree[n].parent, won)

\* variant of backpropagate: "while node.parent", which stops below the root
RECURSIVE backpropagate_skiproot(_, _, _)
backpropagate_skiproot(tree, n, won) ==
    IF n = NoNode \/ tree[n].parent = NoNode THEN tree
    ELSE backpropagate_skiproot([tree EXCEPT ![n].visits = @ + 1,
                                             ![n].wins   = @ + (IF won THEN 1 ELSE 0)],
                                tree[n].parent, won)

\* variant of backpropagate: the outcome is inverted at every step up
RECURSIVE backpropagate_flip(_, _, _)
backpropagate_flip(tree, n, won) ==
    IF n = NoNode THEN tree
    ELSE backpropagate_flip([tree EXCEPT ![n].visits = @ + 1,
                                         ![n].wins   = @ + (IF won THEN 1 ELSE 0)],
                            tree[n].parent, ~won)

\* variant of backpropagate: "if" in place of "while", only the given node
\* is updated
backpropagate_leafonly(tree, n, won) ==
    IF n = NoNode THEN tree
    ELSE [tree EXCEPT ![n].visits = @ + 1,
                      ![n].wins   = @ + (IF won THEN 1 ELSE 0)]

\* variant of backpropagate: the walk starts at the parent of the given node
RECURSIVE backpropagate_skipleaf(_, _, _)
backpropagate_skipleaf(tree, n, won) ==
    IF n = NoNode \/ tree[n].parent = NoNode THEN tree
    ELSE backpropagate_skipleaf([tree EXCEPT ![tree[n].parent].visits = @ + 1,
                                             ![tree[n].parent].wins   = @ + (IF won THEN 1 ELSE 0)],
                                tree[n].parent, won)

RECURSIVE backpropagate(_, _, _)
backpropagate(tree, n, won) ==
    IF n = NoNode THEN tree
    ELSE backpropagate([tree EXCEPT ![n].visits = @ + 1,
                                    ![n].wins   = @ + (IF won THEN 1 ELSE 0)],
                       tree[n].parent, won)

\* variant of RateGeq: the comparison reversed, a / b <= c / d
RateLeq(a, b, c, d) == a * d <= c * b

\* variant of RateGeq: the comparison strict, a / b > c / d
RateGt(a, b, c, d) == a * d > c * b

\* a / b >= c / d for b, d > 0
RateGeq(a, b, c, d) == a * d >= c * b

\* the for loop of get_best_action over the children from position i on;
\* winrate is the fraction num / den
RECURSIVE BestLoop(_, _, _, _, _, _)
BestLoop(tree, kids, i, num, den, action) ==
    IF i > Len(kids) THEN action
    ELSE LET child == tree[kids[i]]
         IN  IF child.visits # 0 /\ RateGeq(child.wins, child.visits, num, den)
             THEN BestLoop(tree, kids, i + 1, child.wins, child.visits,
                           [bound |-> TRUE, value |-> child.parent_action])
             ELSE BestLoop(tree, kids, i + 1, num, den, action)

\* variant of get_best_action: without the else branch for a childless root
get_best_action_nofallback(tree, root_node) ==
    BestLoop(tree, ChildValues(tree[root_node]), 1, 0, 1, [bound |-> FALSE, value |-> None])

\* variant of get_best_action: a later child replaces the best only when
\* its rate is strictly greater
get_best_action_first(tree, root_node) ==
    IF tree[root_node].child_nodes # << >>
    THEN LET kids      == ChildValues(tree[root_node])
             geq(i, j) == RateGeq(tree[kids[i]].wins, tree[kids[i]].visits,
                                  tree[kids[j]].wins, tree[kids[j]].visits)
             best      == CHOOSE i \in 1..Len(kids) :
                              /\ \A j \in 1..Len(kids) : geq(i, j)
                              /\ \A j \in 1..(i - 1) : ~geq(j, i)
         IN  [bound |-> TRUE, value |-> tree[kids[best]].parent_action]
    ELSE [bound |-> TRUE, value |-> tree[root_node].parent_action]

\* the local "action" at the return statement: bound or not, and its value
get_best_action(tree, root_node) ==
    IF tree[root_node].child_nodes # << >>
    THEN BestLoop(tree, ChildValues(tree[root_node]), 1, 0, 1,
                  [bound |-> FALSE, value |-> None])
    ELSE [bound |-> TRUE, value |-> tree[root_node].parent_action]

\* the assertion of is_win
IsWinAsserts(s) == points_values(s) # None

\* variant of is_win: the outcome of player 1 is read, whoever the bot is
is_win_player1(s, identity_of_bot) == points_values(s)[1] = 1

is_win(s, identity_of_bot) == points_values(s)[identity_of_bot] = 1

----------------------------------------------------------------------------
(* think *)

VARIABLES
    nodes,          \* the arena of MCTSNode objects; the root is nodes[1]
    current_state,  \* the state think was called with
    bot_identity,   \* the player to move in current_state
    num_nodes,      \* the iteration budget
    iter,           \* completed iterations of the for loop
    pc,             \* the phase think is about to run
    node,           \* local of think: the current node
    state,          \* local of think: the current state
    calls,          \* the calls of next_state since the iteration began
    scored,         \* the <<node, is_opponent>> pairs of the last traversal
    best_action,    \* the value think returned
    error,          \* the exception that ended think, "" if none
    ply_state,      \* one ply of rollout on its own: rollout_state
    ply_bot,        \* one ply of rollout on its own: identity_of_bot
    ply_locals,     \* one ply of rollout on its own: the locals of the ply
    ply_i,          \* one ply of rollout on its own: samples drawn so far
    ply_sampled,    \* one ply of rollout on its own: the moves sampled so far
    ply_played      \* one ply of rollout on its own: the move played, None before

plyvars == <<ply_state, ply_bot, ply_locals, ply_i, ply_sampled, ply_played>>

thinkvars == <<nodes, current_state, bot_identity, num_nodes, iter, pc, node, state,
               calls, scored, best_action, error>>

vars == <<thinkvars, plyvars>>

root_node == 1

Init ==
    /\ current_state \in StartStates
    /\ num_nodes \in 0..MaxBudget
    /\ bot_identity = current_player(current_state)
    /\ nodes = <<MCTSNode(NoNode, None, legal_actions(current_state))>>
    /\ iter = 0
    /\ pc = "traverse"
    /\ node = root_node
    /\ state = current_state
    /\ calls = << >>
    /\ scored = << >>
    /\ best_action = None
    /\ error = ""
    /\ ply_state = current_state
    /\ ply_bot = bot_identity
    /\ ply_locals = PlyStart
    /\ ply_i = 0
    /\ ply_sampled = {}
    /\ ply_played = None

AllLegal(cs) == \A i \in 1..Len(cs) : IsLegal(cs[i][1], cs[i][2])

Raise(e) ==
    /\ pc' = "raised"
    /\ error' = e

Traverse ==
    /\ pc = "traverse"
    /\ iter < num_nodes
    /\ LET r == traverse_nodes(nodes, root_node, current_state, bot_identity)
       IN  /\ calls' = r.calls
           /\ scored' = r.scored
           /\ IF AllLegal(r.calls)
              THEN /\ node' = r.node
                   /\ state' = r.state
                   /\ pc' = "expand"
                   /\ error' = error
              ELSE /\ Raise("InvalidAction")
                   /\ UNCHANGED <<node, state>>
    /\ UNCHANGED <<nodes, current_state, bot_identity, num_nodes, iter, best_action>>
    /\ UNCHANGED plyvars

\* variant of expand_leaf: the child's action list is read before the state
\* is advanced
expand_leaf_oldstate(tree, n, s, action) ==
    LET removed == [tree EXCEPT ![n].untried_actions = ListRemove(@, action)]
        s2      == next_state(s, action)
        child   == Len(tree) + 1
        grown   == Append(removed, MCTSNode(n, action, legal_actions(s)))
    IN  [tree  |-> [grown EXCEPT ![n].child_nodes = DictUpdate(@, action, child)],
         node  |-> child,
         state |-> s2,
         call  |-> <<s, action, "expand">>]

\* variant of expand_leaf: the expanded node is counted as visited at once
expand_leaf_visit(tree, n, s, action) ==
    LET removed == [tree EXCEPT ![n].untried_actions = ListRemove(@, action),
                                ![n].visits = @ + 1]
        s2      == next_state(s, action)
        child   == Len(tree) + 1
        grown   == Append(removed, MCTSNode(n, action, legal_actions(s2)))
    IN  [tree  |-> [grown EXCEPT ![n].child_nodes = DictUpdate(@, action, child)],
         node  |-> child,
         state |-> s2,
         call  |-> <<s, action, "expand">>]

\* expand_leaf with the action drawn by choice(node.untried_actions)
expand_leaf(tree, n, s, action) ==
    LET removed == [tree EXCEPT ![n].untried_actions = ListRemove(@, action)]
        s2      == next_state(s, action)
        child   == Len(tree) + 1
        grown   == Append(removed, MCTSNode(n, action, legal_actions(s2)))
    IN  [tree  |-> [grown EXCEPT ![n].child_nodes = DictUpdate(@, action, child)],
         node  |-> child,
         state |-> s2,
         call  |-> <<s, action, "expand">>]

Expand ==
    /\ pc = "expand"
    /\ IF nodes[node].untried_actions # << >>
       THEN \E i \in 1..Len(nodes[node].untried_actions) :
              LET r == expand_leaf(nodes, node, state, nodes[node].untried_actions[i])
              IN  /\ calls' = Append(calls, r.call)
                  /\ IF IsLegal(r.call[1], r.call[2])
                     THEN /\ nodes' = r.tree
                          /\ node' = r.node
                          /\ state' = r.state
                          /\ pc' = "rollout"
                          /\ error' = error
                     ELSE /\ Raise("InvalidAction")
                          /\ nodes' = [nodes EXCEPT ![node].untried_actions =
                                          ListRemove(@, r.call[2])]
                          /\ UNCHANGED <<node, state>>
       ELSE /\ pc' = "rollout"
            /\ UNCHANGED <<nodes, node, state, calls, error>>
    /\ UNCHANGED <<current_state, bot_identity, num_nodes, iter, scored, best_action>>
    /\ UNCHANGED plyvars

Rollout ==
    /\ pc = "rollout"
    /\ \E r \in rollout(state, bot_identity, calls) :
          /\ calls' = r.calls
          /\ IF r.invalid
             THEN /\ Raise("InvalidAction")
                  /\ state' = state
             ELSE /\ state' = r.state
                  /\ pc' = "backpropagate"
                  /\ error' = error
    /\ UNCHANGED <<nodes, current_state, bot_identity, num_nodes, iter, node, scored,
                   best_action>>
    /\ UNCHANGED plyvars

Backpropagate ==
    /\ pc = "backpropagate"
    /\ IF IsWinAsserts(state)
       THEN /\ nodes' = backpropagate(nodes, node, is_win(state, bot_identity))
            /\ iter' = iter + 1
            /\ pc' = "traverse"
            /\ error' = error
       ELSE /\ Raise("AssertionError")
            /\ UNCHANGED <<nodes, iter>>
    /\ UNCHANGED <<current_state, bot_identity, num_nodes, node, state, calls, scored,
                   best_action>>
    /\ UNCHANGED plyvars

Return ==
    /\ pc = "traverse"
    /\ iter = num_nodes
    /\ LET a == get_best_action(nodes, root_node)
       IN  IF a.bound
           THEN /\ best_action' = a.value
                /\ pc' = "done"
                /\ error' = error
           ELSE /\ Raise("UnboundLocalError")
                /\ best_action' = best_action
    /\ UNCHANGED <<nodes, current_state, bot_identity, num_nodes, iter, node, state,
                   calls, scored>>
    /\ UNCHANGED plyvars

Next ==
    \/ Traverse
    \/ Expand
    \/ Rollout
    \/ Backpropagate
    \/ Return

Spec == Init /\ [][Next]_vars

----------------------------------------------------------------------------
(* One ply of rollout, sample by sample: the body of "while not is_ended"  *)
(* started in any state of the game that is not ended                       *)

PlyInit ==
    /\ ply_state \in {t \in GameStates : ~is_ended(t)}
    /\ ply_bot \in Players
    /\ ply_locals = PlyStart
    /\ ply_i = 0
    /\ ply_sampled = {}
    /\ ply_played = None
    /\ current_state = ply_state
    /\ num_nodes = 1
    /\ bot_identity = ply_bot
    /\ nodes = <<MCTSNode(NoNode, None, legal_actions(ply_state))>>
    /\ iter = 0
    /\ pc = "rollout"
    /\ node = root_node
    /\ state = ply_state
    /\ calls = << >>
    /\ scored = << >>
    /\ best_action = None
    /\ error = ""

\* one pass of "for i in range(50)": move = choice(legal_actions(rollout_state))
PlySample ==
    /\ ply_played = None
    /\ ply_i < NumSamples
    /\ \E move \in SeqToSet(legal_actions(ply_state)) :
          /\ ply_locals' = SampleStep(ply_locals, ply_state, move, ply_bot)
          /\ ply_sampled' = ply_sampled \cup {move}
    /\ ply_i' = ply_i + 1
    /\ UNCHANGED <<ply_state, ply_bot, ply_played>>
    /\ UNCHANGED thinkvars

\* the end of the ply: best_move is chosen and played
PlyPlay ==
    /\ ply_played = None
    /\ ply_i = NumSamples
    /\ ply_played' = PlyMove(ply_locals)
    /\ UNCHANGED <<ply_state, ply_bot, ply_locals, ply_i, ply_sampled>>
    /\ UNCHANGED thinkvars

PlyNext ==
    \/ PlySample
    \/ PlyPlay

SpecPly == PlyInit /\ [][PlyNext]_vars

----------------------------------------------------------------------------
(* Definitions used to state the properties *)

NodeIds == 1..Len(nodes)

\* the state of a node: the parent_actions replayed from the root
RECURSIVE StateAt(_)
StateAt(n) ==
    IF nodes[n].parent = NoNode THEN current_state
    ELSE next_state(StateAt(nodes[n].parent), nodes[n].parent_action)

RootKids == ChildValues(nodes[root_node])

RootIsTerminal == legal_actions(current_state) = << >>

\* wins/visits of node a is at least wins/visits of node b, a node without
\* visits having rate 0
WinRateGeq(a, b) ==
    LET wa == IF nodes[a].visits = 0 THEN 0 ELSE nodes[a].wins
        va == IF nodes[a].visits = 0 THEN 1 ELSE nodes[a].visits
        wb == IF nodes[b].visits = 0 THEN 0 ELSE nodes[b].wins
        vb == IF nodes[b].visits = 0 THEN 1 ELSE nodes[b].visits
    IN  wa * vb >= wb * va

\* the terminal states that play from s can end in
RECURSIVE TerminalsFrom(_)
TerminalsFrom(s) ==
    IF is_ended(s) THEN {s}
    ELSE UNION {TerminalsFrom(next_state(s, a)) : a \in SeqToSet(legal_actions(s))}

OutcomesAfter(s, a, p) == {points_values(t)[p] : t \in TerminalsFrom(next_state(s, a))}

\* s has exactly two legal actions, one only lost and one only won by the
\* player to move
ForcedWinLoss(s) ==
    /\ Len(legal_actions(s)) = 2
    /\ \E a, b \in SeqToSet(legal_actions(s)) :
          /\ OutcomesAfter(s, a, current_player(s)) = {-1}
          /\ OutcomesAfter(s, b, current_player(s)) = {1}

WinningAction(s) ==
    CHOOSE b \in SeqToSet(legal_actions(s)) : OutcomesAfter(s, b, current_player(s)) = {1}

----------------------------------------------------------------------------
(* Properties *)

\* C1: for a non-terminal root and a budget of at least 1, think returns
\* (it does not stop on an unbound action) the parent_action of a child of
\* the root whose wins/visits is the largest among the root's children.
C1_ReturnsBestRate ==
    (num_nodes >= 1 /\ ~RootIsTerminal) =>
        /\ error # "UnboundLocalError"
        /\ pc = "done" =>
              \E i \in 1..Len(RootKids) :
                  /\ nodes[RootKids[i]].parent_action = best_action
                  /\ \A j \in 1..Len(RootKids) : WinRateGeq(RootKids[i], RootKids[j])

C1_Witness ==
    /\ pc = "done"
    /\ num_nodes >= 2
    /\ Len(RootKids) >= 2
    /\ \E i, j \in 1..Len(RootKids) : ~WinRateGeq(RootKids[i], RootKids[j])
    /\ nodes[RootKids[1]].parent_action # best_action

\* C2: when the root has exactly two legal actions, one leading only to
\* terminal states lost by the root player and one only to terminal states
\* won by it, think returns the winning action for every budget of at least
\* 2, whatever expansion and rollout draw.
C2_ForcedWinChosen ==
    (num_nodes >= 2 /\ ForcedWinLoss(current_state)) =>
        /\ pc # "raised"
        /\ pc = "done" => best_action = WinningAction(current_state)

C2_Witness ==
    /\ pc = "done"
    /\ num_nodes >= 3
    /\ ForcedWinLoss(current_state)
    /\ nodes[RootKids[1]].parent_action # WinningAction(current_state)
    /\ best_action = WinningAction(current_state)

\* C3: when the root has exactly one legal action, think returns it for
\* every budget of at least 1, whatever the rollouts' outcomes.
C3_SingleAction ==
    (num_nodes >= 1 /\ Len(legal_actions(current_state)) = 1) =>
        /\ pc # "raised"
        /\ pc = "done" => best_action = legal_actions(current_state)[1]

C3_Witness ==
    /\ pc = "done"
    /\ num_nodes >= 1
    /\ Len(legal_actions(current_state)) = 1
    /\ nodes[RootKids[1]].wins = 0
    /\ best_action = legal_actions(current_state)[1]

\* C4: when the root state is terminal, no child is ever added to the root,
\* no phase raises, and think returns the root's parent_action, None.
C4_TerminalRoot ==
    RootIsTerminal =>
        /\ Len(nodes) = 1
        /\ nodes[root_node].child_nodes = << >>
        /\ pc # "raised"
        /\ pc = "done" => best_action = nodes[root_node].parent_action /\ best_action = None

C4_Witness ==
    /\ RootIsTerminal
    /\ pc = "done"
    /\ num_nodes >= 2
    /\ iter = num_nodes

\* C5: every node of the tree has 0 <= wins <= visits.
C5_WinsAtMostVisits ==
    \A n \in NodeIds : 0 <= nodes[n].wins /\ nodes[n].wins <= nodes[n].visits

C5_Witness ==
    /\ iter >= 2
    /\ \E n, m \in NodeIds : /\ nodes[n].wins >= 1
                             /\ nodes[m].visits >= 1
                             /\ nodes[m].wins < nodes[m].visits

\* C6: after k completed iterations the root's visits equal k, whether or
\* not the iteration expanded a node and wherever the traversal stopped.
C6_RootVisits ==
    /\ nodes[root_node].visits = iter
    /\ iter <= num_nodes
    /\ pc = "done" => nodes[root_node].visits = num_nodes

\* an iteration that ended at a terminal node without expanding
C6_Witness ==
    /\ pc = "traverse"
    /\ iter >= 3
    /\ node # root_node
    /\ nodes[node].visits >= 2
    /\ nodes[node].untried_actions = << >>
    /\ nodes[node].child_nodes = << >>
    /\ nodes[root_node].visits = iter

\* C7: for every node, between the phases of the search, the keys of
\* child_nodes and the untried actions are disjoint and together are the
\* legal actions of the state reached by replaying the parent_actions from
\* the root.
C7_ActionsPartition ==
    pc # "raised" =>
        \A n \in NodeIds :
            /\ ChildKeys(nodes[n]) \cap SeqToSet(nodes[n].untried_actions) = {}
            /\ ChildKeys(nodes[n]) \cup SeqToSet(nodes[n].untried_actions)
                  = SeqToSet(legal_actions(StateAt(n)))

C7_Witness ==
    \E n \in NodeIds :
        /\ n # root_node
        /\ nodes[n].child_nodes # << >>
        /\ nodes[n].untried_actions # << >>

\* C8: the untried actions of a node never grow: in every step the new
\* value is a subset of the old one, and at most one action of one node is
\* lost, in the expansion of the iteration.
C8_UntriedShrinks ==
    [][ /\ Len(nodes') >= Len(nodes)
        /\ \A n \in NodeIds :
              /\ SeqToSet(nodes'[n].untried_actions) \subseteq SeqToSet(nodes[n].untried_actions)
              /\ Len(nodes[n].untried_actions) - Len(nodes'[n].untried_actions) <= 1
              /\ nodes'[n].untried_actions # nodes[n].untried_actions =>
                    /\ pc = "expand"
                    /\ n = node
                    /\ \A m \in NodeIds \ {n} :
                          nodes'[m].untried_actions = nodes[m].untried_actions ]_vars

C8_Witness ==
    /\ pc = "rollout"
    /\ Len(legal_actions(current_state)) = 2
    /\ Len(nodes[root_node].untried_actions) = 1
    /\ Len(nodes) = 2

\* C9: every action handed to next_state in traversal, expansion and
\* rollout is a legal action of the state it is applied to, so
\* InvalidAction is never raised.
C9_OnlyLegalActions ==
    /\ AllLegal(calls)
    /\ error # "InvalidAction"

C9_Witness ==
    /\ pc = "backpropagate"
    /\ \E i, j, k \in 1..Len(calls) :
          /\ calls[i][3] = "traverse"
          /\ calls[j][3] = "expand"
          /\ calls[k][3] = "rollout"

\* C10: whenever traverse_nodes scores the children of a node, is_opponent
\* is true exactly when the player to move at that node's state is not the
\* root decision-maker.
C10_FlagFollowsPlayer ==
    \A i \in 1..Len(scored) :
        scored[i][2] = (current_player(StateAt(scored[i][1])) # bot_identity)

\* the positional score of a move in the ply's state: positive when the
\* move claims its box for the bot, negative when it claims it for the
\* opponent
PlyScore(move) ==
    LET owner == owned_boxes(next_state(ply_state, move))[move]
    IN  IF owner = ply_bot THEN BoxPoints(move)
        ELSE IF owner = Other(ply_bot) THEN 0 - BoxPoints(move)
        ELSE 0

\* C11: at the end of a ply, if a sampled action has a positional score
\* above the threshold 0, the action played is a sampled action with the
\* highest score among those sampled; otherwise it is a legal action of the
\* state.
C11_PlaysBestSampled ==
    ply_played # None =>
        IF \E m \in ply_sampled : PlyScore(m) > 0
        THEN /\ ply_played \in ply_sampled
             /\ \A m \in ply_sampled : PlyScore(m) <= PlyScore(ply_played)
        ELSE IsLegal(ply_state, ply_played)

\* the node the traversal moved to from the i-th node it passed through
PathNext(i) == IF i < Len(scored) THEN scored[i + 1][1] ELSE node

\* the position of node c among the children of node n
KidIndex(n, c) == CHOOSE k \in 1..Len(nodes[n].child_nodes) : nodes[n].child_nodes[k][2] = c

\* C12: whenever traverse_nodes descends from a fully expanded node it
\* moves to a child whose ucb score is the largest among the node's
\* children, and among children with the largest score to the one inserted
\* first into child_nodes.
C12_DescendsToFirstMax ==
    pc = "expand" =>
        \A i \in 1..Len(scored) :
            LET n  == scored[i][1]
                f  == scored[i][2]
                c  == PathNext(i)
                ks == ChildValues(nodes[n])
            IN  /\ \E k \in 1..Len(ks) : ks[k] = c
                /\ \A k \in 1..Len(ks) : ucb(nodes, ks[k], f) <= ucb(nodes, c, f)
                /\ \A k \in 1..(KidIndex(n, c) - 1) : ucb(nodes, ks[k], f) < ucb(nodes, c, f)

\* a descent from a node with two children of equal score, and one from a
\* node whose later child has the larger score
C12_Witness ==
    /\ pc = "expand"
    /\ \E i \in 1..Len(scored) :
          LET n  == scored[i][1]
              ks == ChildValues(nodes[n])
          IN  /\ Len(ks) = 2
              /\ ucb(nodes, ks[1], scored[i][2]) = ucb(nodes, ks[2], scored[i][2])
              /\ PathNext(i) = ks[1]

\* C13: traverse_nodes returns a node that has an untried action or has no
\* children; every node it passed through had no untried action and at
\* least one child; the nodes passed through are the ancestors of the
\* returned node from the root down, and the returned state is the start
\* state advanced by the parent_actions of the nodes descended to, in order.
C13_TraverseResult ==
    pc = "expand" =>
        /\ nodes[node].untried_actions # << >> \/ nodes[node].child_nodes = << >>
        /\ \A i \in 1..Len(scored) :
              /\ nodes[scored[i][1]].untried_actions = << >>
              /\ nodes[scored[i][1]].child_nodes # << >>
              /\ nodes[PathNext(i)].parent = scored[i][1]
        /\ PathNext(0) = root_node
        /\ state = StateAt(node)
        /\ Len(calls) = Len(scored)
        /\ \A i \in 1..Len(calls) :
              /\ calls[i][2] = nodes[PathNext(i)].parent_action
              /\ calls[i][1] = StateAt(scored[i][1])

C13_Witness ==
    /\ pc = "expand"
    /\ Len(scored) = 2
    /\ nodes[node].untried_actions = << >>
    /\ nodes[node].child_nodes = << >>
    /\ state # current_state

\* node a is node n or one of its ancestors
RECURSIVE OnPath(_, _)
OnPath(a, n) ==
    IF n = NoNode THEN FALSE
    ELSE IF a = n THEN TRUE
    ELSE OnPath(a, nodes[n].parent)

Depth(n) == Cardinality({a \in NodeIds : OnPath(a, n)}) - 1

SameCounters(n) ==
    /\ nodes'[n].visits = nodes[n].visits
    /\ nodes'[n].wins = nodes[n].wins

SameShape(n) ==
    /\ nodes'[n].parent = nodes[n].parent
    /\ nodes'[n].parent_action = nodes[n].parent_action
    /\ nodes'[n].child_nodes = nodes[n].child_nodes
    /\ nodes'[n].untried_actions = nodes[n].untried_actions

\* C14: expand_leaf on a node with an untried action removes exactly one
\* action a from its untried_actions, adds exactly one child under key a
\* (parent the node, parent_action a, untried_actions the legal actions of
\* next_state(state, a)) and returns that child with next_state(state, a);
\* on a node without untried actions it changes nothing and returns the
\* node and state it was given.
C14_ExpandLeaf ==
    [][ (pc = "expand" /\ pc' = "rollout") =>
          IF nodes[node].untried_actions # << >>
          THEN \E a \in SeqToSet(nodes[node].untried_actions) :
                 LET c == Len(nodes) + 1
                 IN  /\ Len(nodes') = c
                     /\ SeqToSet(nodes'[node].untried_actions)
                           = SeqToSet(nodes[node].untried_actions) \ {a}
                     /\ Len(nodes'[node].untried_actions)
                           = Len(nodes[node].untried_actions) - 1
                     /\ a \notin ChildKeys(nodes[node])
                     /\ nodes'[node].child_nodes = Append(nodes[node].child_nodes, <<a, c>>)
                     /\ nodes'[node].parent = nodes[node].parent
                     /\ nodes'[node].parent_action = nodes[node].parent_action
                     /\ SameCounters(node)
                     /\ nodes'[c] = [parent |-> node, parent_action |-> a,
                                     child_nodes |-> << >>,
                                     untried_actions |-> legal_actions(next_state(state, a)),
                                     wins |-> 0, visits |-> 0]
                     /\ \A m \in NodeIds \ {node} : nodes'[m] = nodes[m]
                     /\ node' = c
                     /\ state' = next_state(state, a)
          ELSE /\ nodes' = nodes
               /\ node' = node
               /\ state' = state ]_vars

\* an expansion below the root whose child is not terminal
C14_Witness ==
    /\ pc = "rollout"
    /\ Len(calls) >= 2
    /\ calls[Len(calls)][3] = "expand"
    /\ nodes[node].visits = 0
    /\ nodes[node].untried_actions # << >>
    /\ nodes[nodes[node].parent].untried_actions # << >>

\* C15: backpropagate(node, won) adds exactly 1 to visits, and 1 to wins if
\* won and 0 if not, on the node and each of its ancestors up to the root,
\* whoever is to move at these nodes.
C15_Backpropagate ==
    [][ (pc = "backpropagate" /\ pc' = "traverse") =>
          LET won == points_values(state)[bot_identity] = 1
          IN  \A n \in NodeIds :
                 OnPath(n, node) =>
                    /\ nodes'[n].visits = nodes[n].visits + 1
                    /\ nodes'[n].wins = nodes[n].wins + (IF won THEN 1 ELSE 0) ]_vars

\* a won simulation counted on a node two levels below the root
C15_Witness ==
    /\ pc = "traverse"
    /\ iter >= 1
    /\ Depth(node) >= 2
    /\ nodes[node].visits = 1
    /\ nodes[node].wins = 1
    /\ nodes[nodes[node].parent].wins >= 1
    /\ nodes[root_node].wins >= 1

\* C16: traverse_nodes, expand_leaf and rollout leave the counters of every
\* existing node unchanged, rollout leaves the whole tree unchanged, and
\* backpropagate leaves unchanged the counters of every node off the path
\* from its argument to the root and creates or deletes no node.
C16_CountersFrame ==
    [][ /\ Len(nodes') >= Len(nodes)
        /\ pc \in {"traverse", "expand", "rollout"} => \A n \in NodeIds : SameCounters(n)
        /\ pc = "rollout" => nodes' = nodes
        /\ pc = "backpropagate" =>
              /\ Len(nodes') = Len(nodes)
              /\ \A n \in NodeIds : SameShape(n)
              /\ \A n \in NodeIds : ~OnPath(n, node) => SameCounters(n) ]_vars

\* after a backpropagation, a visited node off the path just updated
C16_Witness ==
    /\ pc = "traverse"
    /\ iter >= 2
    /\ \E n \in NodeIds : ~OnPath(n, node) /\ nodes[n].visits >= 1
    /\ \E n \in NodeIds : nodes[n].untried_actions = << >> /\ nodes[n].child_nodes # << >>

\* the positions of the root's children with the highest win rate
TopKids == {i \in 1..Len(RootKids) : \A j \in 1..Len(RootKids) : WinRateGeq(RootKids[i], RootKids[j])}

LastTopKid == CHOOSE i \in TopKids : \A j \in TopKids : j <= i

\* C17: when several children of the root share the highest win rate,
\* get_best_action returns the action of the one that comes last in the
\* root's insertion order.
C17_LastOfTies ==
    (pc = "done" /\ nodes[root_node].child_nodes # << >>) =>
        best_action = nodes[RootKids[LastTopKid]].parent_action

C17_Witness ==
    /\ pc = "done"
    /\ Cardinality(TopKids) >= 2
    /\ best_action = nodes[RootKids[LastTopKid]].parent_action
    /\ best_action # nodes[RootKids[1]].parent_action
    /\ 1 \in TopKids

\* C18: the state handed to is_win is terminal in every iteration, after a
\* rollout from a freshly expanded state and after a traversal that stopped
\* at a terminal node alike, so the assertion of is_win never fails.
C18_IsWinOnTerminal ==
    /\ pc = "backpropagate" => is_ended(state) /\ points_values(state) # None
    /\ error # "AssertionError"

\* is_win reached after a rollout of two plies or more from a fresh node,
\* in a search that earlier handed is_win the state of a terminal node
C18_Witness ==
    /\ pc = "backpropagate"
    /\ nodes[node].visits = 0
    /\ \E i, j \in 1..Len(calls) : i # j /\ calls[i][3] = "rollout" /\ calls[j][3] = "rollout"
    /\ \E n \in NodeIds : /\ nodes[n].visits >= 1
                          /\ nodes[n].untried_actions = << >>
                          /\ nodes[n].child_nodes = << >>

\* C19: after every completed iteration every node but the root has
\* 1 <= visits <= parent.visits; so ucb never reads a parent with 0 visits,
\* and when the root has children get_best_action finds a child with visits
\* and has an action to return.
C19_VisitsBelowParent ==
    /\ pc \in {"traverse", "done"} =>
          \A n \in NodeIds \ {root_node} :
              /\ 1 <= nodes[n].visits
              /\ nodes[n].visits <= nodes[nodes[n].parent].visits
    /\ pc = "expand" => \A i \in 1..Len(scored) : nodes[scored[i][1]].visits >= 1
    /\ error # "UnboundLocalError"
    /\ (pc = "done" /\ nodes[root_node].child_nodes # << >>) =>
          /\ \E i \in 1..Len(RootKids) : nodes[RootKids[i]].visits # 0
          /\ best_action # None

C19_Witness ==
    /\ pc = "done"
    /\ \E n \in NodeIds \ {root_node} :
          /\ Depth(n) = 2
          /\ nodes[n].visits = nodes[nodes[n].parent].visits - 1
    /\ \E n \in NodeIds \ {root_node} : nodes[n].visits = nodes[nodes[n].parent].visits

RECURSIVE SumVisits(_, _)
SumVisits(kids, i) ==
    IF i > Len(kids) THEN 0 ELSE nodes[kids[i]].visits + SumVisits(kids, i + 1)

NodeIsTerminal(n) == legal_actions(StateAt(n)) = << >>

\* C20: after every completed iteration a node whose state is not terminal
\* has visits = the sum of its children's visits, plus 1 unless it is the
\* root; nodes with a terminal state have no children, and an iteration
\* stops at a node without expanding it only if the node is terminal.
C20_VisitsConservation ==
    /\ pc \in {"traverse", "done"} =>
          \A n \in NodeIds :
              IF NodeIsTerminal(n)
              THEN nodes[n].child_nodes = << >>
              ELSE nodes[n].visits = SumVisits(ChildValues(nodes[n]), 1)
                                       + (IF n = root_node THEN 0 ELSE 1)
    /\ (pc = "rollout" /\ (calls = << >> \/ calls[Len(calls)][3] # "expand")) =>
          NodeIsTerminal(node)

C20_Witness ==
    /\ pc = "traverse"
    /\ iter >= 4
    /\ Len(RootKids) = 2
    /\ \E n \in NodeIds \ {root_node} :
          /\ ~NodeIsTerminal(n)
          /\ nodes[n].child_nodes # << >>
          /\ nodes[n].visits = SumVisits(ChildValues(nodes[n]), 1) + 1
    /\ \E n \in NodeIds : NodeIsTerminal(n) /\ nodes[n].visits >= 1

====
